---- MODULE Spec2Model ----
(***************************************************************************)
(* webhdmi: the App component of src/index.tsx as a state machine.         *)
(*                                                                         *)
(* The state is the component's useState cells (devices, selectedGroupId,  *)
(* isStreaming, error), the sink's srcObject (videoRef.current.srcObject), *)
(* the position of the asynchronous initDevices() run, and the part of the *)
(* platform the handlers read or drive: the promises of getUserMedia that  *)
(* are still pending, the tracks that are running, the pending setTimeout  *)
(* callbacks, document.fullscreenElement and the fullscreenchange events   *)
(* that are queued but not dispatched yet.                                 *)
(***************************************************************************)
EXTENDS Integers, Sequences, FiniteSets, TLC

VARIABLES
    mediaDevices,     \* the platform's devices, in enumeration order
    permission,       \* capture permission granted: labels are exposed
    pc,               \* position of initDevices()
    probeTracks,      \* running tracks of the probe stream
    devices,          \* useState: DeviceGroup[]
    selectedGroupId,  \* useState: string
    isStreaming,      \* useState: boolean
    error,            \* useState: string | null
    srcObject,        \* videoRef.current.srcObject: a stream, or NoStream
    streams,          \* per stream of startStream: "none", "pending", "live"
    constraints,      \* per stream of startStream: the device ids it pinned
    timers,           \* pending setTimeout callbacks of startStream
    fullscreenElement,\* document.fullscreenElement is the sink
    fsEvents,         \* fullscreenchange events queued, not yet dispatched
    op                \* the handler that ran last, with what it surfaced

vars == <<mediaDevices, permission, pc, probeTracks, devices, selectedGroupId,
          isStreaming, error, srcObject, streams, constraints, timers,
          fullscreenElement, fsEvents, op>>

discoveryVars == <<mediaDevices, permission, pc, probeTracks, devices,
                   selectedGroupId, error>>

sessionVars == <<isStreaming, srcObject, streams, constraints, timers,
                 fullscreenElement, fsEvents>>

----
\* Bounds of the model.

\* Longest device list the platform reports in the discovery-only
\* specification.
MaxDevices == 4

\* Streams of startStream that can be pending or live at the same time.
MaxStreams == 2

\* Pending setTimeout callbacks.
MaxTimers == 2

\* Queued fullscreenchange events.
MaxEvents == 2

----
\* Values.

NoStream == 0
StreamIds == 1..MaxStreams
NoConstraints == [video |-> 0, audio |-> 0]
NoError == "null"
DiscoveryError == "Error: Ensure HTTPS/localhost and grant permissions."
UnknownLabel == "Unknown Capture Device"

Kinds == {"videoinput", "audioinput", "audiooutput"}

\* groupId values: the empty string, a canonical array index ("1"), a plain
\* string ("a") and the name of a property every object inherits from
\* Object.prototype ("constructor").
GroupIds == {"", "1", "a", "constructor"}

\* The array index a property key denotes, -1 when it is not a canonical
\* array index (ECMAScript orders these keys first, ascending).
ArrayIndex(key) ==
    CASE key = "0" -> 0
      [] key = "1" -> 1
      [] key = "2" -> 2
      [] OTHER -> -1

\* Keys for which a lookup on a fresh object literal yields an inherited,
\* truthy value that is not an array.
InheritedKeys == {"constructor", "toString", "valueOf", "hasOwnProperty",
                  "__proto__"}

----
\* navigator.mediaDevices.enumerateDevices(): one descriptor per device, the
\* label withheld until permission has been granted.
EnumerateDevices(devs, perm) ==
    [i \in 1..Len(devs) |->
        [deviceId |-> i,
         kind     |-> devs[i].kind,
         groupId  |-> devs[i].groupId,
         label    |-> IF perm THEN devs[i].label ELSE ""]]

\* allDevices.some((d) => d.label)
SomeLabel(allDevices) ==
    \E i \in 1..Len(allDevices) : allDevices[i].label # ""

\* The loop that fills `groups`: keys in insertion order, the array of each
\* key, and whether group.push threw.
RECURSIVE FillGroups(_, _, _, _)
FillGroups(allDevices, i, keys, arrays) ==
    IF i > Len(allDevices) THEN [keys |-> keys, arrays |-> arrays, threw |-> FALSE]
    ELSE LET device == allDevices[i]
             g == device.groupId
         IN  IF g = "" THEN FillGroups(allDevices, i + 1, keys, arrays)
             ELSE IF g \in DOMAIN arrays
                  THEN FillGroups(allDevices, i + 1, keys,
                                  [arrays EXCEPT ![g] = Append(@, device)])
             ELSE IF g \in InheritedKeys
                  THEN [keys |-> keys, arrays |-> arrays, threw |-> TRUE]
             ELSE FillGroups(allDevices, i + 1, Append(keys, g),
                             arrays @@ (g :> <<device>>))

\* The keys of `keys` that are array indices, ascending.
RECURSIVE IndexKeys(_, _)
IndexKeys(keySet, acc) ==
    IF keySet = {} THEN acc
    ELSE LET k == CHOOSE x \in keySet :
                      \A y \in keySet : ArrayIndex(x) <= ArrayIndex(y)
         IN  IndexKeys(keySet \ {k}, Append(acc, k))

\* Object.values(groups) visits the own keys in property order: array
\* indices ascending, then the other keys in insertion order.
PropertyOrder(keys) ==
    LET isIndex(k) == ArrayIndex(k) >= 0
        isName(k) == ArrayIndex(k) < 0
        indexSet == {keys[i] : i \in {j \in 1..Len(keys) : isIndex(keys[j])}}
    IN  IndexKeys(indexSet, <<>>) \o SelectSeq(keys, isName)

\* Find, returning the last descriptor of the kind instead of the first.
FindLast(group, kind) ==
    LET hits == {i \in 1..Len(group) : group[i].kind = kind}
    IN  IF hits = {} THEN <<>>
        ELSE <<group[CHOOSE i \in hits : \A j \in hits : i >= j]>>

\* group.find((d) => d.kind === kind): the first such descriptor, as a
\* sequence of length 0 or 1.
Find(group, kind) ==
    LET hits == {i \in 1..Len(group) : group[i].kind = kind}
    IN  IF hits = {} THEN <<>>
        ELSE <<group[CHOOSE i \in hits : \A j \in hits : i <= j]>>

\* GroupLabel, trying the audio descriptor's label before the fallback.
GroupLabelOrAudio(video, audio) ==
    IF video.label # "" THEN video.label
    ELSE IF audio.label # "" THEN audio.label
    ELSE UnknownLabel

\* video.label || 'Unknown Capture Device'
GroupLabel(video, audio) ==
    IF video.label # "" THEN video.label ELSE UnknownLabel

\* The body of the forEach callback: the DeviceGroup of one array, if any.
ValidGroup(group) ==
    LET video == Find(group, "videoinput")
        audio == Find(group, "audioinput")
    IN  IF video # <<>> /\ audio # <<>>
        THEN <<[groupId |-> video[1].groupId,
                video   |-> video[1],
                audio   |-> audio[1],
                label   |-> GroupLabel(video[1], audio[1])]>>
        ELSE <<>>

RECURSIVE ValidGroups(_, _, _)
ValidGroups(order, arrays, i) ==
    IF i > Len(order) THEN <<>>
    ELSE ValidGroup(arrays[order[i]]) \o ValidGroups(order, arrays, i + 1)

\* Lines 31-53 of initDevices: the groups of an enumeration, or the throw.
Discover(allDevices) ==
    LET filled == FillGroups(allDevices, 1, <<>>, <<>>)
    IN  IF filled.threw THEN [threw |-> TRUE, groups |-> <<>>]
        ELSE [threw  |-> FALSE,
              groups |-> ValidGroups(PropertyOrder(filled.keys),
                                     filled.arrays, 1)]

\* StopTracks, leaving the tracks running.
StopTracksNone(running) == running

\* stream.getTracks().forEach((track) => track.stop()): the tracks of the
\* stream that are still running afterwards.
StopTracks(running) == 0


----
\* initDevices (lines 19-65), one action per await that resolves or rejects.

\* Lines 55-58, after lines 31-53: publish the groups and the default
\* selection; a throw in the loop is caught like a rejection.
Finish(allDevices) ==
    LET found == Discover(allDevices)
    IN  IF found.threw
        THEN /\ error' = DiscoveryError
             /\ pc' = "failed"
             /\ UNCHANGED <<devices, selectedGroupId>>
        ELSE /\ devices' = found.groups
             /\ selectedGroupId' = IF Len(found.groups) > 0
                                   THEN found.groups[1].groupId
                                   ELSE selectedGroupId
             /\ pc' = "done"
             /\ UNCHANGED error

\* Catch, swallowing the failure without setting the error text.
CatchSilent ==
    /\ pc' = "failed"
    /\ UNCHANGED <<error, devices, selectedGroupId, permission, probeTracks>>

\* The catch block, lines 59-64.
Catch ==
    /\ error' = DiscoveryError
    /\ pc' = "failed"
    /\ UNCHANGED <<devices, selectedGroupId, permission, probeTracks>>

\* EnumerateResolved, publishing the groups of the first enumeration before
\* the probe has run.
EnumerateResolvedEager ==
    /\ pc = "enum1"
    /\ LET allDevices == EnumerateDevices(mediaDevices, permission)
       IN  IF ~SomeLabel(allDevices)
           THEN /\ pc' = "probe"
                /\ devices' = Discover(allDevices).groups
                /\ UNCHANGED <<selectedGroupId, error>>
           ELSE Finish(allDevices)
    /\ op' = "enumerated"
    /\ UNCHANGED <<mediaDevices, permission, probeTracks, sessionVars>>

\* Line 21 resolves; line 22 decides on the probe.
EnumerateResolved ==
    /\ pc = "enum1"
    /\ LET allDevices == EnumerateDevices(mediaDevices, permission)
       IN  IF ~SomeLabel(allDevices)
           THEN /\ pc' = "probe"
                /\ UNCHANGED <<devices, selectedGroupId, error>>
           ELSE Finish(allDevices)
    /\ op' = "enumerated"
    /\ UNCHANGED <<mediaDevices, permission, probeTracks, sessionVars>>

EnumerateRejected ==
    /\ pc = "enum1"
    /\ Catch
    /\ op' = "discoveryFailed"
    /\ UNCHANGED <<mediaDevices, sessionVars>>

\* Lines 23-28: the probe stream arrives, its tracks are stopped and the
\* second enumeration is requested.
ProbeResolved ==
    /\ pc = "probe"
    /\ permission' = TRUE
    /\ probeTracks' = StopTracks(2)
    /\ pc' = "enum2"
    /\ op' = "probed"
    /\ UNCHANGED <<mediaDevices, devices, selectedGroupId, error, sessionVars>>

ProbeRejected ==
    /\ pc = "probe"
    /\ Catch
    /\ op' = "discoveryFailed"
    /\ UNCHANGED <<mediaDevices, sessionVars>>

\* Line 28 resolves.
ReEnumerateResolved ==
    /\ pc = "enum2"
    /\ Finish(EnumerateDevices(mediaDevices, permission))
    /\ op' = "enumerated"
    /\ UNCHANGED <<mediaDevices, permission, probeTracks, sessionVars>>

ReEnumerateRejected ==
    /\ pc = "enum2"
    /\ Catch
    /\ op' = "discoveryFailed"
    /\ UNCHANGED <<mediaDevices, sessionVars>>

InitDevices ==
    \/ EnumerateResolved
    \/ EnumerateRejected
    \/ ProbeResolved
    \/ ProbeRejected
    \/ ReEnumerateResolved
    \/ ReEnumerateRejected

----
\* The handlers of the rendered component.

\* Line 136 and line 138: the selection view (select and start button) is
\* rendered only while not streaming and without an error.
SelectionViewRendered == ~isStreaming /\ error = NoError

\* SelectedGroup, falling back to the first group when the selected id
\* matches none.
SelectedGroupOrFirst ==
    LET hits == {i \in 1..Len(devices) : devices[i].groupId = selectedGroupId}
    IN  IF devices = <<>> THEN <<>>
        ELSE IF hits = {} THEN <<devices[1]>>
        ELSE <<devices[CHOOSE i \in hits : \A j \in hits : i <= j]>>

\* devices.find((d) => d.groupId === selectedGroupId), as a sequence of
\* length 0 or 1.
SelectedGroup ==
    LET hits == {i \in 1..Len(devices) : devices[i].groupId = selectedGroupId}
    IN  IF hits = {} THEN <<>>
        ELSE <<devices[CHOOSE i \in hits : \A j \in hits : i <= j]>>

\* Line 72: the early return of startStream.
StartReturnsEarly(group) == group = <<>>

\* Constraints, taking the audio device of the first group.
ConstraintsMixed(group) ==
    [video |-> group.video.deviceId, audio |-> devices[1].audio.deviceId]

\* Lines 74-86: the device ids the constraints pin.
Constraints(group) ==
    [video |-> group.video.deviceId, audio |-> group.audio.deviceId]

Pending == {s \in StreamIds : streams[s] = "pending"}
Live == {s \in StreamIds : streams[s] = "live"}

\* The stream a new getUserMedia call of startStream would deliver.
FreshStream == CHOOSE s \in StreamIds :
                   /\ streams[s] = "none"
                   /\ \A t \in StreamIds : streams[t] = "none" => s <= t

\* startStream up to its await (lines 70-89), on a click on the start
\* button. The button's disabled attribute (line 157) covers a case of the
\* early return: with no devices no group is found. The guards on the free
\* stream and on MaxTimers only bound the model.
StartStream ==
    /\ SelectionViewRendered
    /\ op' = "startStream"
    /\ IF StartReturnsEarly(SelectedGroup)
       THEN UNCHANGED <<streams, constraints>>
       ELSE /\ \E s \in StreamIds : streams[s] = "none"
            /\ Cardinality(Pending) + timers < MaxTimers
            /\ streams' = [streams EXCEPT ![FreshStream] = "pending"]
            /\ constraints' = [constraints EXCEPT
                                  ![FreshStream] = Constraints(SelectedGroup[1])]
    /\ UNCHANGED <<discoveryVars, isStreaming, srcObject, timers,
                   fullscreenElement, fsEvents>>

\* Lines 89-106: getUserMedia resolves; the stream is bound to the sink,
\* isStreaming is set and the full-screen request is scheduled. The video
\* element is rendered unconditionally (lines 166-176), so videoRef.current
\* is set. A stream the sink was bound to before is replaced, not stopped.
AcquireResolved(s) ==
    /\ streams[s] = "pending"
    /\ streams' = [streams EXCEPT ![s] = "live"]
    /\ srcObject' = s
    /\ isStreaming' = TRUE
    /\ timers' = timers + 1
    /\ op' = "acquired"
    /\ UNCHANGED <<discoveryVars, constraints, fullscreenElement, fsEvents>>

\* StreamingAfterFailure, returning to the selection view on the failure.
StreamingAfterFailureReset(streaming) == FALSE

\* What the catch block of startStream (lines 107-110) does to isStreaming.
StreamingAfterFailure(streaming) == streaming

\* Lines 107-110: getUserMedia rejects; the failure is shown by alert().
AcquireRejected(s) ==
    /\ streams[s] = "pending"
    /\ streams' = [streams EXCEPT ![s] = "none"]
    /\ constraints' = [constraints EXCEPT ![s] = NoConstraints]
    /\ isStreaming' = StreamingAfterFailure(isStreaming)
    /\ op' = "alert"
    /\ UNCHANGED <<discoveryVars, srcObject, timers, fullscreenElement,
                   fsEvents>>

\* Lines 95-101: the timeout fires and requestFullscreen is granted. The
\* element that becomes the full-screen element gets a fullscreenchange
\* event; a request on the element that already is full-screen changes
\* nothing.
FullscreenGranted ==
    /\ timers > 0
    /\ timers' = timers - 1
    /\ IF fullscreenElement
       THEN UNCHANGED <<fullscreenElement, fsEvents>>
       ELSE /\ fsEvents < MaxEvents
            /\ fullscreenElement' = TRUE
            /\ fsEvents' = fsEvents + 1
    /\ op' = "fullscreen"
    /\ UNCHANGED <<discoveryVars, isStreaming, srcObject, streams, constraints>>

\* StreamingAfterFullscreenError, leaving the streaming view on the error.
StreamingAfterFullscreenErrorReset(streaming) == FALSE

\* What the catch block of the timeout callback (lines 102-104) does to
\* isStreaming.
StreamingAfterFullscreenError(streaming) == streaming

\* Lines 95-104: the timeout fires and requestFullscreen is rejected; the
\* failure is logged.
FullscreenRejected ==
    /\ timers > 0
    /\ timers' = timers - 1
    /\ isStreaming' = StreamingAfterFullscreenError(isStreaming)
    /\ op' = "fullscreenFailed"
    /\ UNCHANGED <<discoveryVars, srcObject, streams, constraints,
                   fullscreenElement, fsEvents>>

\* The user or the platform leaves full-screen: the document has no
\* full-screen element any more and a fullscreenchange event is queued.
ExitFullscreen ==
    /\ fullscreenElement
    /\ fsEvents < MaxEvents
    /\ fullscreenElement' = FALSE
    /\ fsEvents' = fsEvents + 1
    /\ op' = "exit"
    /\ UNCHANGED <<discoveryVars, isStreaming, srcObject, streams, constraints,
                   timers>>

\* Line 173: document.exitFullscreen() on a pause of the sink. Without a
\* full-screen element the call returns a rejected promise and does
\* nothing else. The sink can pause while a stream is bound to it.
ExitsOnPause(fullscreen) == fullscreen

Pause ==
    /\ srcObject # NoStream
    /\ IF ExitsOnPause(fullscreenElement)
       THEN /\ fsEvents < MaxEvents
            /\ fullscreenElement' = FALSE
            /\ fsEvents' = fsEvents + 1
       ELSE UNCHANGED <<fullscreenElement, fsEvents>>
    /\ op' = "pause"
    /\ UNCHANGED <<discoveryVars, isStreaming, srcObject, streams, constraints,
                   timers>>

\* StopBound, dropping every stream of startStream, bound or not.
StopEvery(bound) == [s \in StreamIds |-> "none"]

\* Lines 118-121: the tracks of the stream bound to the sink are stopped.
StopBound(bound) ==
    IF bound = NoStream THEN streams ELSE [streams EXCEPT ![bound] = "none"]

\* handleFullscreenChange (lines 113-125), on the dispatch of a queued
\* fullscreenchange event. op tells a stop() that found a stream bound to
\* the sink ("stop") from one that found none ("stopIdle").
HandleFullscreenChange ==
    /\ fsEvents > 0
    /\ fsEvents' = fsEvents - 1
    /\ IF ~fullscreenElement
       THEN /\ isStreaming' = FALSE
            /\ streams' = StopBound(srcObject)
            /\ constraints' = IF srcObject = NoStream THEN constraints
                              ELSE [constraints EXCEPT
                                       ![srcObject] = NoConstraints]
            /\ srcObject' = NoStream
            /\ op' = IF srcObject = NoStream THEN "stopIdle" ELSE "stop"
       ELSE /\ op' = "fullscreenchange"
            /\ UNCHANGED <<isStreaming, streams, constraints, srcObject>>
    /\ UNCHANGED <<discoveryVars, timers, fullscreenElement>>

\* The values the select element can report: the value of one of its
\* options (lines 148-152), or the empty string when none is selected.
OptionValues == {devices[i].groupId : i \in 1..Len(devices)} \cup {""}

\* SetSelection, starting the stream of the chosen group right away.
SetSelectionAndStart(id) ==
    /\ SelectionViewRendered
    /\ selectedGroupId' = id
    /\ op' = "select"
    /\ \E s \in StreamIds : streams[s] = "none"
    /\ Cardinality(Pending) + timers < MaxTimers
    /\ streams' = [streams EXCEPT ![FreshStream] = "pending"]
    /\ UNCHANGED <<mediaDevices, permission, pc, probeTracks, devices, error,
                   isStreaming, srcObject, constraints, timers,
                   fullscreenElement, fsEvents>>

\* Line 146: onChange stores the value of the select element.
SetSelection(id) ==
    /\ SelectionViewRendered
    /\ selectedGroupId' = id
    /\ op' = "select"
    /\ UNCHANGED <<mediaDevices, permission, pc, probeTracks, devices, error,
                   sessionVars>>

----
\* The devices of the platform in the specification of the whole component.
Camera(groupId, label) ==
    [kind |-> "videoinput", groupId |-> groupId, label |-> label]
Microphone(groupId, label) ==
    [kind |-> "audioinput", groupId |-> groupId, label |-> label]
Speaker(groupId, label) ==
    [kind |-> "audiooutput", groupId |-> groupId, label |-> label]

Platforms ==
    { <<>>,
      <<Camera("a", "HDMI Capture"), Microphone("a", "HDMI Audio")>>,
      <<Camera("a", ""), Microphone("a", "HDMI Audio")>>,
      <<Camera("b", "Webcam")>>,
      <<Speaker("b", "Speakers"), Camera("b", "Webcam"),
        Microphone("a", "HDMI Audio"), Microphone("b", "Webcam Mic"),
        Camera("a", "HDMI Capture"), Camera("b", "Webcam 2")>> }

\* The state of the component after its first render, with initDevices
\* awaiting the first enumeration.
Mounted ==
    /\ permission \in BOOLEAN
    /\ pc = "enum1"
    /\ probeTracks = 0
    /\ devices = <<>>
    /\ selectedGroupId = ""
    /\ isStreaming = FALSE
    /\ error = NoError
    /\ srcObject = NoStream
    /\ streams = [s \in StreamIds |-> "none"]
    /\ constraints = [s \in StreamIds |-> NoConstraints]
    /\ timers = 0
    /\ fullscreenElement = FALSE
    /\ fsEvents = 0
    /\ op = "render"

Init ==
    /\ mediaDevices \in Platforms
    /\ Mounted

Next ==
    \/ InitDevices
    \/ StartStream
    \/ \E s \in StreamIds : AcquireResolved(s)
    \/ \E s \in StreamIds : AcquireRejected(s)
    \/ FullscreenGranted
    \/ FullscreenRejected
    \/ ExitFullscreen
    \/ Pause
    \/ HandleFullscreenChange
    \/ \E id \in OptionValues : SetSelection(id)

Spec == Init /\ [][Next]_vars

----
\* Discovery alone, over every device list of at most MaxDevices devices.
Descriptors == [kind : Kinds, groupId : GroupIds, label : {"Capture"}]

RECURSIVE Lists(_)
Lists(n) ==
    IF n = 0 THEN {<<>>}
    ELSE LET shorter == Lists(n - 1)
         IN  shorter \cup {Append(l, d) : l \in {x \in shorter : Len(x) = n - 1},
                                          d \in Descriptors}

InitDiscovery ==
    /\ mediaDevices \in Lists(MaxDevices)
    /\ Mounted

SpecDiscovery == InitDiscovery /\ [][InitDevices]_vars

----
\* Properties.

\* The session is Idle: the selection view is shown, the sink is bound to
\* no stream and no track of a stream of startStream is running.
SessionIdle == ~isStreaming /\ srcObject = NoStream /\ Live = {}

\* C1: a start() while an earlier start() is still acquiring its stream, or
\* while the session is Active, issues no acquisition request: at most one
\* request of start() is in flight and at most one start->stop cycle (a
\* pending or a live stream) is open.
C1_OneStartInFlight ==
    /\ Cardinality(Pending) <= 1
    /\ Cardinality(Pending \cup Live) <= 1

\* C2: right after every stop() no track of any stream acquired by start()
\* is running, the sink is bound to no stream and isActive is false.
C2_StopReleasesAll ==
    op \in {"stop", "stopIdle"} => (Live = {} /\ srcObject = NoStream /\ ~isStreaming)

\* C3: at most one stream acquired by start() has running tracks.
C3_OneCaptureSession == Cardinality(Live) <= 1

\* C4: right after a start() whose acquisition was rejected (the alert has
\* been shown) the session is Idle: isActive is false, the sink is bound to
\* no stream, no track is running and no full-screen request is scheduled.
C4_FailedStartLeavesIdle ==
    op = "alert" => (SessionIdle /\ timers = 0)

\* No discovered group has the selected id.
NoMatchingGroup ==
    \A i \in 1..Len(devices) : devices[i].groupId # selectedGroupId

\* C5: a start() with an empty group list, or with a selected id that
\* matches no discovered group, requests no stream and changes no state
\* variable.
C5_NoGroupNoAcquisition ==
    [][(op' = "startStream" /\ NoMatchingGroup)
          => UNCHANGED <<discoveryVars, sessionVars>>]_vars

\* A start() has just run with groups discovered and a selected id that
\* matches none of them; nothing is pending.
C5_Witness ==
    /\ op = "startStream"
    /\ devices # <<>>
    /\ NoMatchingGroup
    /\ Pending = {}

\* The enumeration the finished discovery has grouped.
Enumerated == EnumerateDevices(mediaDevices, permission)

\* The positions in the enumeration of the descriptors of a kind and group.
Positions(groupId, kind) ==
    {i \in 1..Len(Enumerated) :
        Enumerated[i].groupId = groupId /\ Enumerated[i].kind = kind}

First(positions) == CHOOSE i \in positions : \A j \in positions : i <= j

Paired(groupId) ==
    Positions(groupId, "videoinput") # {} /\ Positions(groupId, "audioinput") # {}

GroupsOf(groupId) == {i \in 1..Len(devices) : devices[i].groupId = groupId}

\* Every group holds the first video-input and the first audio-input
\* descriptor of its groupId, and no groupId has two groups.
FirstDescriptorsOnce ==
    /\ \A i \in 1..Len(devices) :
          LET g == devices[i].groupId
          IN  /\ Paired(g)
              /\ devices[i].video = Enumerated[First(Positions(g, "videoinput"))]
              /\ devices[i].audio = Enumerated[First(Positions(g, "audioinput"))]
    /\ \A g \in GroupIds : Cardinality(GroupsOf(g)) <= 1

FirstMet(groupId) ==
    First({i \in 1..Len(Enumerated) : Enumerated[i].groupId = groupId})

\* C7: after discovery the groups are in the order in which their groupIds
\* were first met in the enumeration, and with at least one group the
\* selection is the id of the first group.
C7_EncounterOrder ==
    pc = "done" =>
        /\ \A i, j \in 1..Len(devices) :
              i < j => FirstMet(devices[i].groupId) < FirstMet(devices[j].groupId)
        /\ Len(devices) > 0 => selectedGroupId = devices[1].groupId

\* C8: right after a pause signal in an Active session the exit of
\* full-screen is under way: the document has no full-screen element and
\* the fullscreenchange notification that triggers stop() is queued.
C8_PauseTriggersStop ==
    (op = "pause" /\ isStreaming) => (~fullscreenElement /\ fsEvents > 0)

\* C9: a rejected full-screen request in an Active session leaves it
\* Active: isActive stays true, the same stream stays bound with its tracks
\* running, and no stop() is triggered (no full-screen change is queued).
C9_FullscreenFailureNonFatal ==
    [][(op' = "fullscreenFailed" /\ isStreaming)
          => /\ isStreaming'
             /\ srcObject # NoStream
             /\ srcObject' = srcObject
             /\ streams'[srcObject'] = "live"
             /\ UNCHANGED <<streams, fullscreenElement, fsEvents>>]_vars

\* The full-screen request of an Active session has just been rejected.
C9_Witness ==
    /\ op = "fullscreenFailed"
    /\ isStreaming
    /\ srcObject # NoStream
    /\ streams[srcObject] = "live"
    /\ ~fullscreenElement

\* C10: while discovery is in progress the group list and the selection are
\* empty and start() has issued no acquisition request.
C10_NothingBeforeDiscovery ==
    pc \in {"enum1", "probe", "enum2"} =>
        /\ devices = <<>>
        /\ selectedGroupId = ""
        /\ \A s \in StreamIds : streams[s] = "none"
        /\ ~isStreaming

\* start() has been invoked while the probe of a platform with a paired
\* group is pending.
C10_Witness ==
    /\ pc = "probe"
    /\ op = "startStream"
    /\ \E g \in GroupIds \ {""} : Paired(g)

\* C11: once discovery has failed the error text is set, the group list and
\* the selection are empty, no probe track is running and start() has
\* issued no acquisition request; discovery stays failed from then on.
C11_DiscoveryErrorPersists ==
    /\ [](pc = "failed" =>
            /\ error = DiscoveryError
            /\ devices = <<>>
            /\ selectedGroupId = ""
            /\ probeTracks = 0
            /\ \A s \in StreamIds : streams[s] = "none"
            /\ ~isStreaming)
    /\ [][pc = "failed" => (pc' = "failed" /\ error' = error)]_vars

\* The re-enumeration has failed after a probe that was granted, on a
\* platform with a paired group.
C11_Witness ==
    /\ pc = "failed"
    /\ op = "discoveryFailed"
    /\ permission
    /\ \E g \in {"a", "b"} : Paired(g)

\* C12: the label of every group is its video descriptor's label when that
\* is not empty and "Unknown Capture Device" when it is, whatever the label
\* of the audio descriptor.
C12_LabelFromVideo ==
    \A i \in 1..Len(devices) :
        /\ devices[i].video.label # "" => devices[i].label = devices[i].video.label
        /\ devices[i].video.label = "" => devices[i].label = "Unknown Capture Device"

\* A group whose video descriptor has no label and whose audio descriptor
\* has one carries the fallback label.
C12_Witness ==
    \E i \in 1..Len(devices) :
        /\ devices[i].video.label = ""
        /\ devices[i].audio.label # ""
        /\ devices[i].label = "Unknown Capture Device"

\* C13: while the acquisition of a start() is pending no stop() executes
\* and no other start() issues an acquisition request.
C13_StartRunsToCompletion ==
    [][Pending # {} =>
          /\ op' \notin {"stop", "stopIdle"}
          /\ ~(op' = "startStream" /\ Pending' # Pending)]_vars

\* C14: the probe is requested exactly when the first enumeration has no
\* descriptor with a label, and only then; the re-enumeration is requested
\* only by the probe that resolved, with every probe track stopped, and no
\* probe track is running afterwards.
C14_ProbeOnceAndReleased ==
    /\ [](pc = "probe" => ~SomeLabel(Enumerated))
    /\ [](pc \in {"enum2", "done", "failed"} => probeTracks = 0)
    /\ [][(pc = "enum1" /\ op' = "enumerated")
             => (pc' = "probe" <=> ~SomeLabel(Enumerated))]_vars
    /\ [][(pc' = "probe" => pc \in {"enum1", "probe"})
          /\ (pc' = "enum2" => pc \in {"probe", "enum2"})
          /\ (pc \in {"enum2", "done", "failed"} => pc' # "enum1")]_vars

\* The probe has just resolved: its tracks are stopped and the
\* re-enumeration is pending.
C14_Witness ==
    /\ pc = "enum2"
    /\ op = "probed"
    /\ probeTracks = 0

\* The device ids of the i-th discovered group.
GroupDeviceIds(i) ==
    [video |-> devices[i].video.deviceId, audio |-> devices[i].audio.deviceId]

\* C15: every stream requested by start() pins the video and the audio
\* device id of one discovered group, and a request pins those of the group
\* whose groupId is the selection when start() is invoked.
C15_PinsSelectedGroup ==
    /\ [](\A s \in StreamIds :
             streams[s] # "none" =>
                 \E i \in 1..Len(devices) : constraints[s] = GroupDeviceIds(i))
    /\ [][\A s \in StreamIds :
             (streams[s] = "none" /\ streams'[s] = "pending") =>
                 \E i \in 1..Len(devices) :
                     /\ devices[i].groupId = selectedGroupId
                     /\ constraints'[s] = GroupDeviceIds(i)]_vars

\* A request for the second of two groups is pending.
C15_Witness ==
    /\ Len(devices) = 2
    /\ selectedGroupId = devices[2].groupId
    /\ op = "startStream"
    /\ \E s \in Pending : constraints[s] = GroupDeviceIds(2)

\* What stop() may change of the session, the group list and the
\* selection.
stopVars == <<isStreaming, srcObject, streams, constraints, timers, devices,
              selectedGroupId, error>>

\* C16: a stop() that finds no stream bound to the sink stops no track and
\* leaves isActive, the sink binding, the group list and the selection as
\* they are; so does a stop() that follows a stop().
C16_StopIdempotent ==
    [][/\ (op' \in {"stop", "stopIdle"} /\ srcObject = NoStream)
            => (op' = "stopIdle" /\ UNCHANGED stopVars)
       /\ (op \in {"stop", "stopIdle"} /\ op' \in {"stop", "stopIdle"})
            => UNCHANGED stopVars]_vars

\* A stop() has just run on an Idle session.
C16_Witness ==
    /\ op = "stopIdle"
    /\ srcObject = NoStream
    /\ ~isStreaming

\* C17: the selection changes only when discovery sets the default and
\* when setSelection runs; the group list changes only when discovery
\* publishes it; setSelection stores a value of the select element and
\* changes nothing else.
C17_SelectionFrame ==
    [][/\ selectedGroupId' # selectedGroupId
            => (op' = "select" \/ (op' = "enumerated" /\ pc # "done" /\ pc' = "done"))
       /\ devices' # devices
            => (op' = "enumerated" /\ pc # "done" /\ pc' = "done")
       /\ op' = "select"
            => /\ selectedGroupId' \in OptionValues
               /\ UNCHANGED <<mediaDevices, permission, pc, probeTracks,
                              devices, error, sessionVars>>]_vars

\* After discovery found groups, setSelection has stored an id that
\* belongs to none of them.
C17_Witness ==
    /\ op = "select"
    /\ pc = "done"
    /\ devices # <<>>
    /\ NoMatchingGroup

\* C18: isActive is true exactly when the sink is bound to a stream.
C18_ActiveIffBound == isStreaming <=> srcObject # NoStream

\* A stream has just been bound to the sink.
C18_Witness ==
    /\ op = "acquired"
    /\ isStreaming
    /\ srcObject # NoStream

\* C19: the sink is full-screen only while the session is Active, and the
\* delayed full-screen request fires only while it is Active.
C19_FullscreenOnlyWhileActive ==
    /\ fullscreenElement => (isStreaming /\ srcObject # NoStream)
    /\ op \in {"fullscreen", "fullscreenFailed"} => isStreaming

====
